---- MODULE Spec2Model ----
(***************************************************************************)
(* Model of the incremental-refresh pipeline of IntelligentRAGSystem:      *)
(* SmartRAGSystem (src/src/rag_system.py), EmbeddingManager                *)
(* (src/src/embedding_manager.py) and DoclingProcessor                     *)
(* (src/src/document_processor.py).                                        *)
(*                                                                         *)
(* Text is a sequence of one-character strings.  The Chroma collection is  *)
(* a sequence of entries in insertion order.  A chunk id                   *)
(* f"{filename}_chunk_{n}" is the pair [source, ordinal]: the format is    *)
(* injective (the ordinal is the digits after the last "_chunk_").         *)
(***************************************************************************)
EXTENDS Integers, Sequences, FiniteSets, TLC

(* ------------------------------ bounds --------------------------------- *)

\* Highest version (modification) a file on disk goes through.
MaxVer == 2

\* Most external calls that raise during one operation.
MaxFaults == 1

\* create_chunks' chunk_size and overlap defaults (1000 and 200 in
\* document_processor.py:103) and add_chunks' batch_size (10 in
\* embedding_manager.py:83), scaled down so that the documents of the model
\* span several chunks and several batches.
chunk_size == 8

overlap == 2

batch_size == 2

(* ------------------------------- text ---------------------------------- *)

Min(a, b) == IF a < b THEN a ELSE b

Max(a, b) == IF a > b THEN a ELSE b

\* Python's len(s).
len(s) == Len(s)

\* A local name bound once to a value: name = value, then the statements that
\* use it.
With(value, Rest(_)) == Rest(value)

\* Python's s[i:j] for 0 <= i, 0 <= j (0-based, j exclusive, clamped).
Slice(s, i, j) == IF Min(j, Len(s)) <= i THEN <<>> ELSE SubSeq(s, i + 1, Min(j, Len(s)))

\* Python's s[-n:] for n >= 0.  s[-0:] is s[0:], the whole string.
\* Mutant of Suffix: the first n characters, s[:n].
Suffix_head(s, n) == SubSeq(s, 1, Min(n, Len(s)))

Suffix(s, n) == IF n = 0 \/ n >= Len(s) THEN s ELSE SubSeq(s, Len(s) - n + 1, Len(s))

\* The delimiter ". " of content.split('. ').
Delim == <<".", " ">>

\* Python's str.split('. '): left to right, non-overlapping, keeps empties.
RECURSIVE SplitFrom(_, _, _)
SplitFrom(s, i, cur) ==
    IF i > Len(s) THEN <<cur>>
    ELSE IF i < Len(s) /\ s[i] = "." /\ s[i + 1] = " "
         THEN <<cur>> \o SplitFrom(s, i + 2, <<>>)
         ELSE SplitFrom(s, i + 1, Append(cur, s[i]))

split(s) == SplitFrom(s, 1, <<>>)

\* Python's str.strip(): the only whitespace of the model's alphabet is " ".
RECURSIVE lstrip(_)
lstrip(s) == IF s # <<>> /\ s[1] = " " THEN lstrip(SubSeq(s, 2, Len(s))) ELSE s

RECURSIVE rstrip(_)
rstrip(s) == IF s # <<>> /\ s[Len(s)] = " " THEN rstrip(SubSeq(s, 1, Len(s) - 1)) ELSE s

strip(s) == IF \A i \in 1..Len(s) : s[i] = " " THEN <<>> ELSE rstrip(lstrip(s))

(* ------------------------------ chunker -------------------------------- *)

\* One chunk dict of create_chunks (document_processor.py:142-147, 155-160).
\* The 'metadata' value is the document's metadata dict.
Chunk(filename, n, text, metadata) ==
    [id |-> [source |-> filename, ordinal |-> n],
     content |-> strip(text),
     source |-> filename,
     metadata |-> metadata]

\* The sentence loop of create_chunks: st = [chunks, current_chunk].
RECURSIVE ChunkLoop(_, _, _, _, _, _)

\* Mutant of ChunkLoop: the next buffer is seeded from the stripped content
\* of the closed chunk.
ChunkLoop_overlap_of_content(sentences, i, st, document_data, cs, ov) ==
    IF i > Len(sentences) THEN st
    ELSE LET sentence == sentences[i]
             cur == st.current_chunk
         IN IF len(cur \o sentence) < cs
            THEN ChunkLoop(sentences, i + 1,
                           [st EXCEPT !.current_chunk = cur \o sentence \o Delim],
                           document_data, cs, ov)
            ELSE LET closed == IF cur # <<>>
                               THEN Append(st.chunks,
                                           Chunk(document_data.filename, Len(st.chunks),
                                                 cur, document_data.metadata))
                               ELSE st.chunks
                     overlap_text == IF len(strip(cur)) > ov
                                     THEN Suffix(strip(cur), ov) ELSE strip(cur)
                 IN ChunkLoop(sentences, i + 1,
                              [chunks |-> closed,
                               current_chunk |-> overlap_text \o sentence \o Delim],
                              document_data, cs, ov)

ChunkLoop(sentences, i, st, document_data, cs, ov) ==
    IF i > Len(sentences) THEN st
    ELSE LET sentence == sentences[i]
             cur == st.current_chunk
         IN IF len(cur \o sentence) < cs
            THEN ChunkLoop(sentences, i + 1,
                           [st EXCEPT !.current_chunk = cur \o sentence \o Delim],
                           document_data, cs, ov)
            ELSE LET closed == IF cur # <<>>
                               THEN Append(st.chunks,
                                           Chunk(document_data.filename, Len(st.chunks),
                                                 cur, document_data.metadata))
                               ELSE st.chunks
                     overlap_text == IF len(cur) > ov THEN Suffix(cur, ov) ELSE cur
                 IN ChunkLoop(sentences, i + 1,
                              [chunks |-> closed,
                               current_chunk |-> overlap_text \o sentence \o Delim],
                              document_data, cs, ov)

\* Mutant of create_chunks: a final buffer longer than the chunk size is cut
\* in two.
create_chunks_hard_cap(document_data, cs, ov) ==
    With(ChunkLoop(split(document_data.content), 1,
                   [chunks |-> <<>>, current_chunk |-> <<>>],
                   document_data, cs, ov),
         LAMBDA st :
           IF st.current_chunk = <<>> THEN st.chunks
           ELSE IF len(st.current_chunk) > cs
                THEN st.chunks
                     \o <<Chunk(document_data.filename, Len(st.chunks),
                                Slice(st.current_chunk, 0, cs), document_data.metadata),
                          Chunk(document_data.filename, Len(st.chunks) + 1,
                                Slice(st.current_chunk, cs, len(st.current_chunk)),
                                document_data.metadata)>>
                ELSE Append(st.chunks,
                            Chunk(document_data.filename, Len(st.chunks),
                                  st.current_chunk, document_data.metadata)))

\* DoclingProcessor.create_chunks(document_data, chunk_size, overlap).
create_chunks(document_data, cs, ov) ==
    With(ChunkLoop(split(document_data.content), 1,
                   [chunks |-> <<>>, current_chunk |-> <<>>],
                   document_data, cs, ov),
         LAMBDA st :
           IF st.current_chunk # <<>>
           THEN Append(st.chunks,
                       Chunk(document_data.filename, Len(st.chunks),
                             st.current_chunk, document_data.metadata))
           ELSE st.chunks)

(* --------------------------- documents directory ----------------------- *)

\* The paths that may exist under documents/, in the order rglob('*') lists
\* them.  Two of them share the basename a.txt; x.bin is not supported.
PathList == <<"a.txt", "sub/a.txt", "b.MD", "x.bin">>

Paths == {PathList[i] : i \in 1..Len(PathList)}

\* Path.name
name(p) == CASE p = "a.txt" -> "a.txt"
             [] p = "sub/a.txt" -> "a.txt"
             [] p = "b.MD" -> "b.MD"
             [] p = "x.bin" -> "x.bin"

\* Path.suffix.lower()
suffix_lower(p) == CASE p = "a.txt" -> ".txt"
                     [] p = "sub/a.txt" -> ".txt"
                     [] p = "b.MD" -> ".md"
                     [] p = "x.bin" -> ".bin"

\* Path("documents") / filename: the top-level path with that basename.
TopLevelPath(filename) == CASE filename = "a.txt" -> "a.txt"
                            [] filename = "b.MD" -> "b.MD"
                            [] filename = "x.bin" -> "x.bin"

supported_extensions == {".pdf", ".docx", ".txt", ".md", ".html"}

\* str(stat.st_mtime) of version v of a file; never the string 'unknown'.
Mtime(v) == <<"t1", "t2", "t3", "t4">>[v]

Letter(p) == CASE p = "a.txt" -> "a"
               [] p = "sub/a.txt" -> "s"
               [] p = "b.MD" -> "b"
               [] p = "x.bin" -> "x"

Digit(v) == <<"1", "2", "3", "4">>[v]

\* What the converter's export_to_markdown() gives for version v of path p:
\* odd versions are one short sentence, even versions two sentences that do
\* not fit one chunk.  Every sentence names the path and the version.
Content(p, v) ==
    LET w == <<Letter(p), Digit(v)>>
    IN IF v % 2 = 1 THEN w ELSE w \o w \o Delim \o w \o w

(* ------------------------------ fault plan ----------------------------- *)

\* An external call that raises in this operation: k is the call, p the path
\* (or filename) it is made for, n the batch it is made for.
Fault(k, p, n) == [k |-> k, p |-> p, n |-> n]

fails(F, k, p, n) == Fault(k, p, n) \in F

(* --------------------------------- log --------------------------------- *)

\* One observable step of an operation: a progress callback (ev = "progress",
\* arg = the step tag without its document index, n = that index, cur = the
\* sentence index of a chunking_{doc}_{sentence} tag) or a call on an external
\* collaborator (arg = the file it is made for, n = the batch or a count).
Ev(e, a, n) == [ev |-> e, arg |-> a, n |-> n, cur |-> 0]

\* SmartRAGSystem._update_progress and the processors' guarded
\* progress_callback calls: nothing when no callback is installed.
_update_progress(cb, step, n) == IF cb THEN <<Ev("progress", step, n)>> ELSE <<>>

(* --------------------------- Chroma collection -------------------------- *)

\* collection.get(): every entry, in insertion order.
coll_get(index) == index

\* Mutant of coll_get_where_source: the where filter is lost and every id of
\* the collection is returned.
coll_get_where_any(index, filename) == [i \in 1..Len(index) |-> index[i].id]

\* collection.get(where={"source": filename})['ids']
coll_get_where_source(index, filename) ==
    LET hit == SelectSeq(index, LAMBDA e : e.metadata.source = filename)
    IN [i \in 1..Len(hit) |-> hit[i].id]

Range(s) == {s[i] : i \in 1..Len(s)}

\* collection.delete(ids=ids)
coll_delete(index, ids) == SelectSeq(index, LAMBDA e : e.id \notin Range(ids))

\* collection.count()
coll_count(index) == Len(index)

\* Chroma rejects an add whose ids repeat inside the call (DuplicateIDError).
HasDuplicateIds(batch) ==
    \E i, j \in 1..Len(batch) : i < j /\ batch[i].id = batch[j].id

\* collection.add(documents, metadatas, ids) of a batch without repeated ids:
\* a record whose id is already in the collection is ignored, the others are
\* appended.
coll_add(index, batch) ==
    index \o SelectSeq(batch, LAMBDA r : \A i \in 1..Len(index) : index[i].id # r.id)

(* --------------------------- EmbeddingManager --------------------------- *)

\* str(chunk.get('metadata', {})): the dict rendered as one string value.  It
\* is stored under the key 'metadata' and is not a dict any more.
str(d) == [repr |-> d]

\* The documents / metadatas / ids that add_chunks prepares, one record per
\* chunk (embedding_manager.py:74-80).
Prepare(chunks) ==
    [i \in 1..Len(chunks) |->
        [id |-> chunks[i].id,
         document |-> chunks[i].content,
         metadata |-> [source |-> chunks[i].source,
                       chunk_id |-> chunks[i].id,
                       metadata |-> str(chunks[i].metadata)]]]

\* One collection.add call: it raises when the engine fails, when the
\* collection handle is stale or when ids repeat inside the call.
AddRaises(batch, b, collOk, F) ==
    fails(F, "add", "", b) \/ ~collOk \/ HasDuplicateIds(batch)

\* The record of one collection.add call: the records [i, j) of the prepared
\* list are passed (n = i, cur = j); arg tells whether the call raised.
AddCall(raises, i, j) ==
    [ev |-> "collection.add", arg |-> IF raises THEN "raised" ELSE "", n |-> i, cur |-> j]

\* The batch loop of add_chunks (embedding_manager.py:86-105), from offset i.
\* r = [index, raised, log].
RECURSIVE AddBatches(_, _, _, _, _)

\* Mutant of AddBatches: the loop advances by one record less than a batch.
AddBatches_overlapping(r, recs, i, collOk, F) ==
    IF i >= Len(recs) \/ r.raised THEN r
    ELSE LET batch == Slice(recs, i, Min(i + batch_size, Len(recs)))
             b == i \div batch_size
             called == r.log \o <<Ev("progress", "batch", b),
                                  AddCall(AddRaises(batch, b, collOk, F),
                                          i, Min(i + batch_size, Len(recs)))>>
         IN IF AddRaises(batch, b, collOk, F)
            THEN [r EXCEPT !.raised = TRUE, !.log = called]
            ELSE AddBatches([r EXCEPT !.index = coll_add(r.index, batch), !.log = called],
                            recs, i + batch_size - 1, collOk, F)

AddBatches(r, recs, i, collOk, F) ==
    IF i >= Len(recs) \/ r.raised THEN r
    ELSE LET batch == Slice(recs, i, Min(i + batch_size, Len(recs)))
             b == i \div batch_size
             called == r.log \o <<Ev("progress", "batch", b),
                                  AddCall(AddRaises(batch, b, collOk, F),
                                          i, Min(i + batch_size, Len(recs)))>>
         IN IF AddRaises(batch, b, collOk, F)
            THEN [r EXCEPT !.raised = TRUE, !.log = called]
            ELSE AddBatches([r EXCEPT !.index = coll_add(r.index, batch), !.log = called],
                            recs, i + batch_size, collOk, F)

\* EmbeddingManager.add_chunks(chunks): [index, ok, log].
add_chunks(index, collOk, cb, chunks, F) ==
    IF chunks = <<>>
    THEN [index |-> index, ok |-> FALSE, log |-> _update_progress(cb, "no_chunks", 0)]
    ELSE
      LET recs == Prepare(chunks)
          start == _update_progress(cb, "embedding_start", 0)
          called == start \o _update_progress(cb, "embedding_all", 0)
                          \o <<AddCall(AddRaises(recs, 0, collOk, F), 0, Len(recs))>>
      IN With(IF len(chunks) > batch_size /\ cb
              THEN AddBatches([index |-> index, raised |-> FALSE, log |-> start],
                              recs, 0, collOk, F)
              ELSE IF AddRaises(recs, 0, collOk, F)
                   THEN [index |-> index, raised |-> TRUE, log |-> called]
                   ELSE [index |-> coll_add(index, recs), raised |-> FALSE,
                         log |-> called],
         LAMBDA written :
         \* collection.count() of the final print is inside the try block
         With(IF written.raised THEN written
              ELSE IF fails(F, "count", "", 0) \/ ~collOk
                   THEN [written EXCEPT !.raised = TRUE,
                                        !.log = @ \o <<Ev("collection.count", "", 0)>>]
                   ELSE [written EXCEPT !.log = @ \o <<Ev("collection.count", "", 0)>>],
         LAMBDA counted :
           IF counted.raised
           THEN [index |-> counted.index, ok |-> FALSE,
                 log |-> counted.log \o _update_progress(cb, "error", 0)]
           ELSE [index |-> counted.index, ok |-> TRUE,
                 log |-> counted.log \o _update_progress(cb, "embedding_complete", 0)]))

\* EmbeddingManager.clear_collection(): [index, collOk, log].  Deleting a
\* collection that does not exist raises; a failure is printed and swallowed.
clear_collection(index, collOk, F) ==
    IF fails(F, "delete_collection", "", 0) \/ ~collOk
    THEN [index |-> index, collOk |-> collOk,
          log |-> <<Ev("client.delete_collection", "raised", 0)>>]
    ELSE IF fails(F, "create_collection", "", 0)
         THEN [index |-> <<>>, collOk |-> FALSE,
               log |-> <<Ev("client.delete_collection", "", 0),
                         Ev("client.create_collection", "raised", 0)>>]
         ELSE [index |-> <<>>, collOk |-> TRUE,
               log |-> <<Ev("client.delete_collection", "", 0),
                         Ev("client.create_collection", "", 0)>>]

(* ---------------------------- change detector -------------------------- *)

\* dict.get(key, default)
Get(d, key, default) == IF key \in DOMAIN d THEN d[key] ELSE default

\* The loop of _get_existing_documents over collection_data['metadatas']:
\* the first entry of a source gives its last_modified, every entry counts.
RECURSIVE ExistingLoop(_, _, _)
ExistingLoop(metadatas, i, existing_docs) ==
    IF i > Len(metadatas) THEN existing_docs
    ELSE LET metadata == metadatas[i]
             source == Get(metadata, "source", "")
             opened == IF source # "" /\ source \notin DOMAIN existing_docs
                       THEN [s \in DOMAIN existing_docs \cup {source} |->
                               IF s = source
                               THEN [chunks_count |-> 0,
                                     last_modified |-> Get(metadata, "last_modified", "unknown")]
                               ELSE existing_docs[s]]
                       ELSE existing_docs
             counted == IF source # ""
                        THEN [opened EXCEPT ![source].chunks_count = @ + 1]
                        ELSE opened
         IN ExistingLoop(metadatas, i + 1, counted)

\* SmartRAGSystem._get_existing_documents(): {} when collection.get() raises.
_get_existing_documents(index, collOk, F) ==
    IF fails(F, "get", "", 0) \/ ~collOk THEN <<>>
    ELSE LET data == coll_get(index)
         IN ExistingLoop([i \in 1..Len(data) |-> data[i].metadata], 1, <<>>)

\* SmartRAGSystem._get_file_info(file_path), made at call site k ("stat" in
\* the detector, "stat2" when the metadata is stamped).
_get_file_info(files, p, k, F) ==
    IF fails(F, k, p, 0) \/ files[p] = 0
    THEN [modified_time |-> "unknown", size |-> 0, path |-> p]
    ELSE [modified_time |-> Mtime(files[p]),
          size |-> Len(Content(p, files[p])), path |-> p]

\* Mutant of all_files: the extension filter is lost.
all_files_any(files) == SelectSeq(PathList, LAMBDA f : files[f] > 0)

\* The files under documents/ with a supported extension, in rglob order
\* (rag_system.py:76-79, 249-252; document_processor.py:185-188).
all_files(files) ==
    SelectSeq(PathList, LAMBDA f : files[f] > 0 /\ suffix_lower(f) \in supported_extensions)

\* The loop of _find_documents_to_process over all_files.
RECURSIVE FindLoop(_, _, _, _, _, _)
FindLoop(fs, i, existing_docs, files, F, acc) ==
    IF i > Len(fs) THEN acc
    ELSE LET file_path == fs[i]
             filename == name(file_path)
             file_info == _get_file_info(files, file_path, "stat", F)
             flag(reason) ==
                 [files_to_process |-> Append(acc.files_to_process, file_path),
                  processing_reasons |->
                      [n \in DOMAIN acc.processing_reasons \cup {filename} |->
                          IF n = filename THEN reason ELSE acc.processing_reasons[n]]]
         IN IF filename \notin DOMAIN existing_docs
            THEN FindLoop(fs, i + 1, existing_docs, files, F, flag("New file"))
            ELSE LET existing_modified ==
                         Get(existing_docs[filename], "last_modified", "unknown")
                     current_modified == file_info.modified_time
                 IN IF existing_modified # current_modified
                    THEN FindLoop(fs, i + 1, existing_docs, files, F, flag("Modified file"))
                    ELSE FindLoop(fs, i + 1, existing_docs, files, F, acc)

\* Mutant of _find_documents_to_process: the early return for an empty listing
\* is lost and the collection is read first.
_find_documents_to_process_eager(index, collOk, files, F) ==
    With(_get_existing_documents(index, collOk, F), LAMBDA existing_docs :
    With(FindLoop(all_files(files), 1, existing_docs, files, F,
                  [files_to_process |-> <<>>, processing_reasons |-> <<>>]),
         LAMBDA r :
           [files_to_process |-> r.files_to_process,
            processing_reasons |-> r.processing_reasons,
            called |-> TRUE,
            get_raised |-> fails(F, "get", "", 0) \/ ~collOk,
            existing_docs |-> existing_docs,
            current |-> [f \in Range(all_files(files)) |->
                            _get_file_info(files, f, "stat", F).modified_time]]))

\* SmartRAGSystem._find_documents_to_process():
\* [files_to_process, processing_reasons] and, for the record, what the
\* detector read: called (the collection was read), get_raised (that read
\* raised), existing_docs and the modified_time of every listed file.
_find_documents_to_process(index, collOk, files, F) ==
    IF all_files(files) = <<>>
    THEN [files_to_process |-> <<>>, processing_reasons |-> <<>>, called |-> FALSE,
          get_raised |-> FALSE, existing_docs |-> <<>>, current |-> <<>>]
    ELSE With(_get_existing_documents(index, collOk, F), LAMBDA existing_docs :
         With(FindLoop(all_files(files), 1, existing_docs, files, F,
                       [files_to_process |-> <<>>, processing_reasons |-> <<>>]),
              LAMBDA r :
                [files_to_process |-> r.files_to_process,
                 processing_reasons |-> r.processing_reasons,
                 called |-> TRUE,
                 get_raised |-> fails(F, "get", "", 0) \/ ~collOk,
                 existing_docs |-> existing_docs,
                 current |-> [f \in Range(all_files(files)) |->
                                 _get_file_info(files, f, "stat", F).modified_time]]))

(* --------------------------- DoclingProcessor --------------------------- *)

\* DoclingProcessor.process_document(file_path, doc_index, total_docs):
\* [ok, document_data, log]; ok = FALSE is the None returned when the
\* converter raises.
process_document(files, file_path, doc_index, cb, F) ==
    LET pre == _update_progress(cb, "extracting_text", doc_index)     \* Extracting text from
               \o _update_progress(cb, "extracting_text", doc_index)  \* Starting
               \o _update_progress(cb, "extracting_text", doc_index)  \* Reading file
               \o _update_progress(cb, "extracting_text", doc_index)  \* Extracting content
               \o _update_progress(cb, "extracting_text", doc_index)  \* Converting document
               \o <<Ev("converter.convert", file_path, doc_index)>>
    IN IF fails(F, "convert", file_path, 0)
       THEN [ok |-> FALSE,
             document_data |-> [filename |-> name(file_path)],
             log |-> pre \o <<Ev("converter.raised", file_path, doc_index)>>
                         \o _update_progress(cb, "error", doc_index)]
       ELSE [ok |-> TRUE,
             document_data |->
                 [filename |-> name(file_path),
                  path |-> file_path,
                  content |-> Content(file_path, files[file_path]),
                  metadata |-> [pages |-> "1", elements |-> "n", tables |-> "0"]],
             log |-> pre \o _update_progress(cb, "extracting_text", doc_index)  \* Formatting
                         \o _update_progress(cb, "extracted_text", doc_index)]

\* The progress events of create_chunks (document_processor.py:110-116,
\* 129-136, 163-169): one per sentence index that is a multiple of
\* update_interval, between the opening and the closing event.
ChunkingEvents(content, doc_index, cb) ==
    LET total_sentences == Len(split(content))
        update_interval == Max(1, total_sentences \div 5)
        ticks == SelectSeq([k \in 1..total_sentences |-> k - 1],
                           LAMBDA i : i % update_interval = 0)
    IN IF cb
       THEN <<Ev("progress", "chunking", doc_index)>>
            \o [k \in 1..Len(ticks) |->
                   [ev |-> "progress", arg |-> "chunking_sentence",
                    n |-> doc_index, cur |-> ticks[k]]]
            \o <<Ev("progress", "chunking_complete", doc_index)>>
       ELSE <<>>

(* ---------------------------- SmartRAGSystem ---------------------------- *)

\* SmartRAGSystem._remove_old_chunks(filename): [index, log].  A failure of
\* either collection call is printed and swallowed.
_remove_old_chunks(index, collOk, filename, F) ==
    LET asked == <<Ev("collection.get_where", filename, 0)>>
        ids == coll_get_where_source(index, filename)
    IN IF fails(F, "get_where", filename, 0) \/ ~collOk
       THEN [index |-> index, log |-> asked]
       ELSE IF ids = <<>>
            THEN [index |-> index, log |-> asked]
            ELSE IF fails(F, "delete", filename, 0)
                 THEN [index |-> index,
                       log |-> asked \o <<Ev("collection.delete", filename, 0)>>]
                 ELSE [index |-> coll_delete(index, ids),
                       log |-> asked \o <<Ev("collection.delete", filename, 0)>>]

\* dict[key] = value
Put(d, key, value) == [k \in DOMAIN d \cup {key} |-> IF k = key THEN value ELSE d[k]]

\* Mutant of SmartStep: the old chunks of a modified file are removed after
\* the file has been converted and chunked, not before.
SmartStep_late(file_path, i, reasons, files, collOk, cb, F, acc) ==
    LET filename == name(file_path)
        reason == Get(reasons, filename, "Unknown")
        announced == acc.log \o _update_progress(cb, "processing_file", i)
    IN With(IF reason = "Modified file"
            THEN With(_remove_old_chunks(acc.index, collOk, filename, F), LAMBDA r :
                      [index |-> r.index,
                       log |-> <<Ev("_remove_old_chunks", filename, i)>> \o r.log])
            ELSE [index |-> acc.index, log |-> <<>>],
       LAMBDA removed :
       With(process_document(files, file_path, i, cb, F), LAMBDA doc :
       With([doc.document_data EXCEPT !.metadata =
                Put(@, "last_modified",
                    _get_file_info(files, file_path, "stat2", F).modified_time)],
       LAMBDA stamped :
         IF doc.ok
         THEN [index |-> removed.index,
               new_chunks |-> acc.new_chunks
                              \o create_chunks(stamped, chunk_size, overlap),
               log |-> announced \o doc.log
                       \o ChunkingEvents(stamped.content, i, cb)
                       \o <<Ev("create_chunks", file_path, i)>> \o removed.log]
         ELSE [index |-> removed.index,
               new_chunks |-> acc.new_chunks,
               log |-> announced \o doc.log \o removed.log])))

\* One turn of the per-file loop of smart_refresh_documents
\* (rag_system.py:157-174) for files_to_process[i].  acc = [index,
\* new_chunks, log].
SmartStep(file_path, i, reasons, files, collOk, cb, F, acc) ==
    LET filename == name(file_path)
        reason == Get(reasons, filename, "Unknown")
        announced == acc.log \o _update_progress(cb, "processing_file", i)
    IN With(IF reason = "Modified file"
            THEN With(_remove_old_chunks(acc.index, collOk, filename, F), LAMBDA r :
                      [index |-> r.index,
                       log |-> <<Ev("_remove_old_chunks", filename, i)>> \o r.log])
            ELSE [index |-> acc.index, log |-> <<>>],
       LAMBDA removed :
       With(process_document(files, file_path, i, cb, F), LAMBDA doc :
       With([doc.document_data EXCEPT !.metadata =
                Put(@, "last_modified",
                    _get_file_info(files, file_path, "stat2", F).modified_time)],
       LAMBDA stamped :
         IF doc.ok
         THEN [index |-> removed.index,
               new_chunks |-> acc.new_chunks
                              \o create_chunks(stamped, chunk_size, overlap),
               log |-> announced \o removed.log \o doc.log
                       \o ChunkingEvents(stamped.content, i, cb)
                       \o <<Ev("create_chunks", file_path, i)>>]
         ELSE [index |-> removed.index,
               new_chunks |-> acc.new_chunks,
               log |-> announced \o removed.log \o doc.log])))

\* The per-file loop of smart_refresh_documents, in file-list order.
RECURSIVE SmartLoop(_, _, _, _, _, _, _, _)

\* Mutant of SmartLoop: the files are gone through from the last to the first.
SmartLoop_backwards(files_to_process, i, reasons, files, collOk, cb, F, acc) ==
    IF i >= Len(files_to_process) THEN acc
    ELSE SmartStep(files_to_process[i + 1], i, reasons, files, collOk, cb, F,
                   SmartLoop(files_to_process, i + 1, reasons, files, collOk, cb, F, acc))

SmartLoop(files_to_process, i, reasons, files, collOk, cb, F, acc) ==
    IF i >= Len(files_to_process) THEN acc
    ELSE SmartLoop(files_to_process, i + 1, reasons, files, collOk, cb, F,
                   SmartStep(files_to_process[i + 1], i, reasons, files, collOk, cb, F, acc))

\* SmartRAGSystem.smart_refresh_documents():
\* [index, found, new_chunks, outcome, log]; outcome is the step tag of the
\* final _update_progress call, which is made with or without a callback.
smart_refresh_documents(index, collOk, files, cb, F) ==
    With(_find_documents_to_process(index, collOk, files, F), LAMBDA found :
    LET files_to_process == found.files_to_process
        total_files == Len(files_to_process)
        start == _update_progress(cb, "analyzing", 0)
                 \o (IF found.called THEN <<Ev("collection.get", "", 0)>> ELSE <<>>)
    IN IF files_to_process = <<>>
       THEN [index |-> index, found |-> found, new_chunks |-> <<>>,
             outcome |-> "up_to_date",
             log |-> start \o _update_progress(cb, "up_to_date", 0)]
       ELSE
         With(SmartLoop(files_to_process, 0, found.processing_reasons, files,
                        collOk, cb, F,
                        [index |-> index, new_chunks |-> <<>>,
                         log |-> start \o _update_progress(cb, "found_changes", 0)]),
         LAMBDA looped :
         With(add_chunks(looped.index, collOk, cb, looped.new_chunks, F),
         LAMBDA added :
           LET new_chunks == looped.new_chunks
           IN IF new_chunks # <<>>
              THEN [index |-> added.index, found |-> found, new_chunks |-> new_chunks,
                    outcome |-> IF added.ok THEN "smart_refresh_complete" ELSE "error",
                    log |-> looped.log \o _update_progress(cb, "adding_chunks", 0)
                            \o <<Ev("add_chunks", "", Len(new_chunks))>> \o added.log
                            \o (IF added.ok
                                THEN _update_progress(cb, "smart_refresh_complete", 0)
                                ELSE _update_progress(cb, "error", 0))]
              ELSE [index |-> looped.index, found |-> found, new_chunks |-> new_chunks,
                    outcome |-> "no_chunks",
                    log |-> looped.log \o _update_progress(cb, "no_chunks", 0)])))

\* The per-file loop of process_all_documents (document_processor.py:202-213).
\* acc = [all_chunks, log, raised]; writing {stem}_chunks.json is not guarded,
\* so a failure of it leaves process_all_documents as an exception.
RECURSIVE AllLoop(_, _, _, _, _, _)

\* Mutant of AllLoop: a file the converter fails on ends the loop.
AllLoop_abort(document_files, i, files, cb, F, acc) ==
    IF i >= Len(document_files) \/ acc.raised THEN acc
    ELSE
      With(process_document(files, document_files[i + 1], i, cb, F), LAMBDA doc :
      LET file_path == document_files[i + 1]
          chunked == [all_chunks |-> acc.all_chunks
                                     \o create_chunks(doc.document_data, chunk_size, overlap),
                      log |-> acc.log \o doc.log
                              \o ChunkingEvents(doc.document_data.content, i, cb)
                              \o <<Ev("create_chunks", file_path, i),
                                   Ev("json.dump", file_path, i)>>,
                      raised |-> fails(F, "dump", file_path, 0)]
      IN IF ~doc.ok
         THEN [acc EXCEPT !.log = @ \o doc.log]
         ELSE AllLoop(document_files, i + 1, files, cb, F, chunked))

AllLoop(document_files, i, files, cb, F, acc) ==
    IF i >= Len(document_files) \/ acc.raised THEN acc
    ELSE
      With(process_document(files, document_files[i + 1], i, cb, F), LAMBDA doc :
      LET file_path == document_files[i + 1]
          chunked == [all_chunks |-> acc.all_chunks
                                     \o create_chunks(doc.document_data, chunk_size, overlap),
                      log |-> acc.log \o doc.log
                              \o ChunkingEvents(doc.document_data.content, i, cb)
                              \o <<Ev("create_chunks", file_path, i),
                                   Ev("json.dump", file_path, i)>>,
                      raised |-> fails(F, "dump", file_path, 0)]
      IN IF ~doc.ok
         THEN AllLoop(document_files, i + 1, files, cb, F,
                      [acc EXCEPT !.log = @ \o doc.log])
         ELSE AllLoop(document_files, i + 1, files, cb, F, chunked))

\* DoclingProcessor.process_all_documents(): [all_chunks, log, raised].
process_all_documents(files, cb, F) ==
    LET document_files == all_files(files)
        scanning == _update_progress(cb, "scanning", 0)
    IN IF document_files = <<>>
       THEN [all_chunks |-> <<>>, raised |-> FALSE,
             log |-> scanning \o _update_progress(cb, "no_documents", 0)]
       ELSE AllLoop(document_files, 0, files, cb, F,
                    [all_chunks |-> <<>>, raised |-> FALSE,
                     log |-> scanning \o _update_progress(cb, "found_docs", 0)])

\* rag_system.py:277-280: a chunk is stamped with the modification time of
\* documents/<source>, the top-level file of that basename, when it exists.
StampTopLevel(chunks, files, F) ==
    [i \in 1..Len(chunks) |->
        LET file_path == TopLevelPath(chunks[i].source)
        IN IF files[file_path] > 0
           THEN [chunks[i] EXCEPT !.metadata =
                    Put(@, "last_modified",
                        _get_file_info(files, file_path, "stat2", F).modified_time)]
           ELSE chunks[i]]

\* SmartRAGSystem._process_documents(): [index, chunks, outcome, log].
_process_documents(index, collOk, files, cb, F) ==
    With(process_all_documents(files, cb, F), LAMBDA processed :
    With(StampTopLevel(processed.all_chunks, files, F), LAMBDA chunks :
    With(add_chunks(index, collOk, cb, chunks, F), LAMBDA added :
    LET start == _update_progress(cb, "start_processing", 0)
    IN IF processed.raised
       THEN [index |-> index, chunks |-> processed.all_chunks, outcome |-> "raised",
             log |-> start \o processed.log]
       ELSE IF processed.all_chunks # <<>>
            THEN [index |-> added.index, chunks |-> chunks,
                  outcome |-> IF added.ok THEN "processing_complete"
                                          ELSE "processing_failed",
                  log |-> start \o processed.log
                          \o _update_progress(cb, "adding_to_db", 0)
                          \o <<Ev("add_chunks", "", Len(chunks))>> \o added.log
                          \o (IF added.ok
                              THEN _update_progress(cb, "processing_complete", 0)
                              ELSE _update_progress(cb, "processing_failed", 0))]
            ELSE [index |-> index, chunks |-> <<>>, outcome |-> "no_documents",
                  log |-> start \o processed.log
                          \o _update_progress(cb, "no_documents", 0)])))

\* SmartRAGSystem.force_full_refresh(): [index, collOk, chunks, outcome, log].
force_full_refresh(index, collOk, files, cb, F) ==
    With(clear_collection(index, collOk, F), LAMBDA cleared :
    With(_process_documents(cleared.index, cleared.collOk, files, cb, F), LAMBDA done :
       [index |-> done.index, collOk |-> cleared.collOk, chunks |-> done.chunks,
        outcome |-> done.outcome,
        log |-> _update_progress(cb, "force_refresh_start", 0)
                \o cleared.log \o done.log]))

\* SmartRAGSystem.refresh_documents(): force_full_refresh between the
\* full_refresh_start and full_refresh_complete events; the second is skipped
\* only when an exception leaves the method.
refresh_documents(index, collOk, files, cb, F) ==
    With(force_full_refresh(index, collOk, files, cb, F), LAMBDA done :
       [done EXCEPT !.log = _update_progress(cb, "full_refresh_start", 0) \o @
                            \o (IF done.outcome = "raised" THEN <<>>
                                ELSE _update_progress(cb, "full_refresh_complete", 0))])

\* EmbeddingManager.get_collection_stats(): a dict; the one built when the
\* engine raises has only the keys status and total_chunks.
get_collection_stats(index, collOk, F) ==
    IF fails(F, "stats", "", 0) \/ ~collOk
    THEN [status |-> "Error", total_chunks |-> 0]
    ELSE IF coll_count(index) > 0
         THEN LET sample == Slice(coll_get(index), 0, Min(100, coll_count(index)))
                  sources == {sample[i].metadata.source : i \in 1..Len(sample)}
              IN [total_chunks |-> coll_count(index),
                  unique_sources |-> Cardinality(sources),
                  sources |-> sources,
                  status |-> "Ready"]
         ELSE [total_chunks |-> 0, unique_sources |-> 0, sources |-> {},
               status |-> "Empty"]

\* SmartRAGSystem.get_system_status(): [raised, found, status_data].  Reading
\* stats['unique_sources'] of the error dict raises KeyError.
get_system_status(index, collOk, files, F) ==
    With(get_collection_stats(index, collOk, F), LAMBDA stats :
    LET document_files == all_files(files)
        none == [files_to_process |-> <<>>, processing_reasons |-> <<>>,
                 called |-> FALSE, get_raised |-> FALSE, existing_docs |-> <<>>,
                 current |-> <<>>]
        found == IF stats.total_chunks > 0
                 THEN _find_documents_to_process(index, collOk, files, F)
                 ELSE none
    IN IF "unique_sources" \notin DOMAIN stats
       THEN [raised |-> TRUE, found |-> none, outcome |-> "KeyError"]
       ELSE [raised |-> FALSE, found |-> found,
             outcome |-> IF stats.total_chunks > 0 THEN "Ready"
                                                   ELSE "No documents loaded"])

(* ------------------------------- retrieval ------------------------------ *)

\* MAX_RELEVANT_CHUNKS of config/settings.py, scaled down.
MAX_RELEVANT_CHUNKS == 2

\* The questions asked: each names the text of one file.
Queries == {"a", "b"}

\* The distance the engine computes between a query and a stored document:
\* smaller for a document that holds the query's text, and smaller for the
\* first version of a text than for the second.
Distance(query, document) ==
    (IF query \in Range(document) THEN 0 ELSE 2)
    + (IF Digit(2) \in Range(document) THEN 1 ELSE 0)

\* collection.query(query_texts=[query], n_results=n): the n nearest
\* entries, nearest first, entries at one distance in collection order.
RECURSIVE coll_query(_, _, _)
coll_query(index, query, n) ==
    IF n = 0 \/ index = <<>> THEN <<>>
    ELSE LET d(i) == Distance(query, index[i].document)
             i == CHOOSE i \in 1..Len(index) :
                      \A j \in 1..Len(index) : d(i) < d(j) \/ (d(i) = d(j) /\ i <= j)
         IN <<index[i]>>
            \o coll_query(SubSeq(index, 1, i - 1) \o SubSeq(index, i + 1, Len(index)),
                          query, n - 1)

\* EmbeddingManager.find_similar_chunks(query, top_k): [raised, chunks, log].
\* The first collection.count() is outside the try block; a failure of
\* collection.query (or of the second count) is printed and gives [].
find_similar_chunks(index, collOk, query, top_k, F) ==
    LET counted(r) == <<Ev("collection.count", IF r THEN "raised" ELSE "", 0)>>
        n_results == Min(top_k, coll_count(index))
        results == coll_query(index, query, n_results)
    IN IF fails(F, "count2", "", 0) \/ ~collOk
       THEN [raised |-> TRUE, chunks |-> <<>>, log |-> counted(TRUE)]
       ELSE IF coll_count(index) = 0
            THEN [raised |-> FALSE, chunks |-> <<>>, log |-> counted(FALSE)]
            ELSE IF fails(F, "query", "", 0)
                 THEN [raised |-> FALSE, chunks |-> <<>>,
                       log |-> counted(FALSE)
                               \o <<Ev("collection.query", "raised", n_results)>>]
                 ELSE [raised |-> FALSE,
                       chunks |-> [i \in 1..Len(results) |->
                                     [id |-> results[i].id,
                                      content |-> results[i].document,
                                      source |-> results[i].metadata.source,
                                      similarity_score |->
                                          1 - Distance(query, results[i].document),
                                      metadata |-> results[i].metadata]],
                       log |-> counted(FALSE)
                               \o <<Ev("collection.query", "", n_results)>>]

(* ------------------------------- answerer ------------------------------- *)

\* The fixed answer over an empty index (rag_system.py:301).
NoDocumentsLoaded == "No documents loaded. Please add documents to the 'documents' folder."

\* The prefixes of the answers built when ollama.chat raises
\* (rag_system.py:364, 378).
ErrorPrefixes == {"Error generating answer: ", "Error: "}

\* ollama.chat(...)['message']['content'] or the error string: [answer, log];
\* kind is 0 for the grounded prompt and 1 for the bare question.
Chat(kind, prefix, F) ==
    IF fails(F, "chat", "", 0)
    THEN [answer |-> <<prefix, "exception text">>,
          log |-> <<Ev("ollama.chat", "raised", kind)>>]
    ELSE [answer |-> <<"response content">>, log |-> <<Ev("ollama.chat", "", kind)>>]

\* SmartRAGSystem._build_context(chunks): the parts "Source i (source):
\* content" of the context, in the order of the chunks; a part is written
\* as the event naming the chunk it is built from.
_build_context(chunks) ==
    [i \in 1..Len(chunks) |->
        [ev |-> "context", arg |-> chunks[i].source, n |-> i,
         cur |-> chunks[i].id.ordinal]]

\* SmartRAGSystem._generate_answer(question, context)
_generate_answer(F) == Chat(0, "Error generating answer: ", F)

\* SmartRAGSystem._fallback_answer(question)
_fallback_answer(F) == Chat(1, "Error: ", F)

\* list(set(chunk['source'] for chunk in relevant_chunks)): the sources in
\* the iteration order of a set of strings, which follows their hashes and
\* not their insertion; hash_order lists all names in that order.
list_set(sources, hash_order) == SelectSeq(hash_order, LAMBDA x : x \in sources)

\* Mutant of ask_question: the test for an empty index is lost.
ask_question_unguarded(index, collOk, question, include_sources, hash_order, F) ==
    With(get_collection_stats(index, collOk, F), LAMBDA stats :
    With(find_similar_chunks(index, collOk, question, MAX_RELEVANT_CHUNKS, F),
    LAMBDA found :
    With(IF found.chunks = <<>> THEN _fallback_answer(F) ELSE _generate_answer(F),
    LAMBDA said :
      LET asked == <<Ev("get_collection_stats",
                        IF "unique_sources" \in DOMAIN stats THEN "" ELSE "raised", 0)>>
          sources == list_set({found.chunks[i].source : i \in 1..Len(found.chunks)},
                              hash_order)
      IN IF found.raised
         THEN [raised |-> TRUE, answer |-> <<>>, relevant_chunks |-> <<>>,
               log |-> asked \o found.log]
         ELSE IF found.chunks = <<>>
              THEN [raised |-> FALSE, answer |-> said.answer,
                    relevant_chunks |-> <<>>,
                    log |-> asked \o found.log \o said.log]
              ELSE [raised |-> FALSE,
                    answer |-> IF include_sources
                               THEN said.answer \o <<"Sources:">> \o sources
                               ELSE said.answer,
                    relevant_chunks |-> found.chunks,
                    log |-> asked \o found.log \o said.log])))

\* SmartRAGSystem.ask_question(question, include_sources):
\* [raised, answer, relevant_chunks, log]; the answer is the returned string
\* in parts: the text, then "Sources:" and the joined source names.
ask_question(index, collOk, question, include_sources, hash_order, F) ==
    With(get_collection_stats(index, collOk, F), LAMBDA stats :
    With(find_similar_chunks(index, collOk, question, MAX_RELEVANT_CHUNKS, F),
    LAMBDA found :
    With(IF found.chunks = <<>> THEN _fallback_answer(F) ELSE _generate_answer(F),
    LAMBDA said :
      LET asked == <<Ev("get_collection_stats",
                        IF "unique_sources" \in DOMAIN stats THEN "" ELSE "raised", 0)>>
          sources == list_set({found.chunks[i].source : i \in 1..Len(found.chunks)},
                              hash_order)
      IN IF stats.total_chunks = 0
         THEN [raised |-> FALSE, answer |-> <<NoDocumentsLoaded>>,
               relevant_chunks |-> <<>>, log |-> asked]
         ELSE IF found.raised
              THEN [raised |-> TRUE, answer |-> <<>>, relevant_chunks |-> <<>>,
                    log |-> asked \o found.log]
              ELSE IF found.chunks = <<>>
                   THEN [raised |-> FALSE, answer |-> said.answer,
                         relevant_chunks |-> <<>>,
                         log |-> asked \o found.log \o said.log]
                   ELSE [raised |-> FALSE,
                         answer |-> IF include_sources
                                    THEN said.answer \o <<"Sources:">> \o sources
                                    ELSE said.answer,
                         relevant_chunks |-> found.chunks,
                         log |-> asked \o found.log \o _build_context(found.chunks)
                                 \o said.log])))

(* ------------------------------- state --------------------------------- *)

VARIABLES
    files,      \* documents/: path -> version on disk, 0 when the path is absent
    index,      \* the persisted Chroma collection: entries in insertion order
    collOk,     \* self.collection refers to an existing collection
    callback,   \* a progress callback is installed
    last        \* what the last operation did

vars == <<files, index, collOk, callback, last>>

NoFound == [files_to_process |-> <<>>, processing_reasons |-> <<>>,
            called |-> FALSE, get_raised |-> FALSE, existing_docs |-> <<>>,
            current |-> <<>>]

\* The record of an operation: op, what the detector returned, the chunks
\* handed to add_chunks, the final step tag, the calls and events in order,
\* clean: no external call was set to raise in it, and quiet: the operation
\* directly follows a clean smart refresh that ended up_to_date or
\* smart_refresh_complete.
Last(op, found, chunks, outcome, log, clean, quiet) ==
    [op |-> op, found |-> found, chunks |-> chunks, outcome |-> outcome,
     log |-> log, clean |-> clean, quiet |-> quiet]

Settled == last.op = "smart" /\ last.clean
           /\ last.outcome \in {"up_to_date", "smart_refresh_complete"}

\* The files that come and go; x.bin, which no operation reads, stays.
Mutable == Paths \ {"x.bin"}

\* RAGSystem(progress_callback=dummy_progress, auto_load=False), as
\* chat_interface.py:102 constructs it, over a documents directory without a
\* supported file and a new collection.
Init ==
    /\ files = [p \in Paths |-> IF p \in Mutable THEN 0 ELSE 1]
    /\ index = <<>>
    /\ collOk = TRUE
    /\ callback = TRUE
    /\ last = Last("init", NoFound, <<>>, "", <<>>, TRUE, FALSE)

(* ------------------------------ fault plans ---------------------------- *)

\* The batches add_chunks can need for the chunks of all files.
Batches == 0..1

Listed == Range(all_files(files))

\* The external calls a smart refresh can make in the current state.
SmartPoints ==
    {Fault("get", "", 0), Fault("count", "", 0)}
    \cup {Fault(k, p, 0) : k \in {"stat", "convert", "stat2"}, p \in Listed}
    \cup {Fault(k, name(p), 0) : k \in {"get_where", "delete"}, p \in Listed}
    \cup {Fault("add", "", b) : b \in Batches}

\* The external calls a full refresh can make in the current state.
FullPoints ==
    {Fault("delete_collection", "", 0), Fault("create_collection", "", 0),
     Fault("count", "", 0)}
    \cup {Fault(k, p, 0) : k \in {"convert", "stat2", "dump"}, p \in Listed}
    \cup {Fault("add", "", b) : b \in Batches}

\* The external calls get_system_status can make in the current state.
StatusPoints ==
    {Fault("stats", "", 0), Fault("get", "", 0)}
    \cup {Fault("stat", p, 0) : p \in Listed}

\* The sets of at most k of the given calls.
RECURSIVE UpTo(_, _)
UpTo(points, k) ==
    IF k = 0 THEN {{}}
    ELSE LET fewer == UpTo(points, k - 1)
         IN fewer \cup {F \cup {f} : F \in fewer, f \in points}

Plans(points) == UpTo(points, MaxFaults)

(* ------------------------------ operations ----------------------------- *)

\* The versions a path goes through: only a.txt is ever modified.
Versions(p) == IF p = "a.txt" THEN 1..MaxVer ELSE {1}

\* A file is created, overwritten or restored under documents/.
WriteFile(p, v) ==
    /\ files[p] # v
    /\ files' = [files EXCEPT ![p] = v]
    /\ last' = Last("write", NoFound, <<>>, "", <<>>, TRUE, FALSE)
    /\ UNCHANGED <<index, collOk, callback>>

\* A file is removed from documents/.
DeleteFile(p) ==
    /\ files[p] # 0
    /\ files' = [files EXCEPT ![p] = 0]
    /\ last' = Last("delete", NoFound, <<>>, "", <<>>, TRUE, FALSE)
    /\ UNCHANGED <<index, collOk, callback>>

\* rag.smart_refresh_documents(progress_callback=update_progress), as
\* chat_interface.py:302 calls it.
SmartRefresh(F) ==
    /\ callback' = TRUE
    /\ \E r \in {smart_refresh_documents(index, collOk, files, TRUE, F)} :
       /\ index' = r.index
       /\ last' = Last("smart", r.found, r.new_chunks, r.outcome, r.log, F = {}, Settled)
       /\ UNCHANGED <<files, collOk>>

\* rag.refresh_documents(progress_callback=update_progress), as
\* chat_interface.py:304 calls it.
FullRefresh(F) ==
    /\ callback' = TRUE
    /\ \E r \in {refresh_documents(index, collOk, files, TRUE, F)} :
       /\ index' = r.index
       /\ collOk' = r.collOk
       /\ last' = Last("full", NoFound, r.chunks, r.outcome, r.log, F = {}, FALSE)
       /\ UNCHANGED files

\* rag.get_system_status()
SystemStatus(F) ==
    /\ UNCHANGED <<files, index, collOk, callback>>
    /\ \E r \in {get_system_status(index, collOk, files, F)} :
       /\ last' = Last("status", r.found, <<>>, r.outcome, <<>>, F = {}, FALSE)

\* The process is started again: EmbeddingManager.__init__ gets the persisted
\* collection, or creates it when get_collection raises.
Restart ==
    /\ ~collOk
    /\ collOk' = TRUE
    /\ callback' = TRUE
    /\ last' = Last("restart", NoFound, <<>>, "", <<>>, TRUE, FALSE)
    /\ UNCHANGED <<files, index>>

Next ==
    \/ \E p \in Mutable : \E v \in Versions(p) : WriteFile(p, v)
    \/ \E p \in Mutable : DeleteFile(p)
    \/ \E F \in Plans(SmartPoints) : SmartRefresh(F)
    \/ \E F \in Plans(FullPoints) : FullRefresh(F)
    \/ \E F \in Plans(StatusPoints) : SystemStatus(F)
    \/ Restart

Spec == Init /\ [][Next]_vars

(* ------------------- refreshes over failing conversions ---------------- *)

\* converter.convert of each listed file, the calls any subset of which may
\* raise in one refresh.
ConvertPoints == {Fault("convert", p, 0) : p \in Listed}

\* The operations of the chat interface when the converter is the only
\* collaborator that fails, on any subset of the files of a refresh.
NextConvert ==
    \/ \E p \in Mutable : \E v \in Versions(p) : WriteFile(p, v)
    \/ \E p \in Mutable : DeleteFile(p)
    \/ \E F \in SUBSET ConvertPoints : SmartRefresh(F)
    \/ \E F \in SUBSET ConvertPoints : FullRefresh(F)

SpecConvert == Init /\ [][NextConvert]_vars

(* ------------------- the index and the answerer alone ------------------ *)

\* The chunks create_chunks makes of version v of path p.
ChunksOf(p, v) ==
    create_chunks(process_document([q \in Paths |-> v], p, 0, FALSE, {}).document_data,
                  chunk_size, overlap)

\* The documents whose chunks are handed to add_chunks in one call, as
\* <<path, version>> pairs: none, one file, two files.
DocLists ==
    {<<>>, <<<<"a.txt", 1>>>>, <<<<"a.txt", 2>>>>, <<<<"b.MD", 1>>>>,
     <<<<"a.txt", 2>>, <<"b.MD", 1>>>>, <<<<"a.txt", 2>>, <<"b.MD", 2>>>>}

\* The chunks of those documents, in order.
RECURSIVE ChunksOfAll(_)
ChunksOfAll(docs) ==
    IF docs = <<>> THEN <<>>
    ELSE ChunksOf(docs[1][1], docs[1][2]) \o ChunksOfAll(SubSeq(docs, 2, Len(docs)))

\* The source names of those chunks.
Sources == {"a.txt", "b.MD"}

\* The iteration orders a set of the source names can have.
HashOrders == {<<"a.txt", "b.MD">>, <<"b.MD", "a.txt">>}

\* The external calls of add_chunks, _remove_old_chunks, find_similar_chunks
\* and ask_question.
AddPoints == {Fault("add", "", b) : b \in Batches} \cup {Fault("count", "", 0)}

RemovePoints(filename) == {Fault("get_where", filename, 0), Fault("delete", filename, 0)}

QueryPoints == {Fault("count2", "", 0), Fault("query", "", 0)}

AskPoints == {Fault("stats", "", 0), Fault("chat", "", 0)} \cup QueryPoints

\* An EmbeddingManager with or without a progress callback over a new
\* collection.
InitIndex ==
    /\ files = [p \in Paths |-> IF p \in Mutable THEN 0 ELSE 1]
    /\ index = <<>>
    /\ collOk = TRUE
    /\ callback \in BOOLEAN
    /\ last = Last("init", NoFound, <<>>, "", <<>>, TRUE, FALSE)

\* embedding_manager.add_chunks(chunks), chunks being those of docs
AddChunks(docs, F) ==
    /\ \E r \in {add_chunks(index, collOk, callback, ChunksOfAll(docs), F)} :
         /\ index' = r.index
         /\ last' = Last("add_chunks", NoFound, ChunksOfAll(docs),
                         IF r.ok THEN "True" ELSE "False", r.log, F = {}, FALSE)
    /\ UNCHANGED <<files, collOk, callback>>

\* self._remove_old_chunks(filename)
RemoveOldChunks(filename, F) ==
    /\ \E r \in {_remove_old_chunks(index, collOk, filename, F)} :
         /\ index' = r.index
         /\ last' = Last("_remove_old_chunks", NoFound, <<>>, filename, r.log,
                         F = {}, FALSE)
    /\ UNCHANGED <<files, collOk, callback>>

\* embedding_manager.find_similar_chunks(query, top_k)
FindSimilar(query, top_k, F) ==
    /\ \E r \in {find_similar_chunks(index, collOk, query, top_k, F)} :
         last' = Last("find_similar_chunks", NoFound, r.chunks,
                      IF r.raised THEN "raised" ELSE "returned",
                      <<Ev("find_similar_chunks", query, top_k)>> \o r.log,
                      F = {}, FALSE)
    /\ UNCHANGED <<files, index, collOk, callback>>

\* rag.ask_question(question, include_sources); the parts of the returned
\* string close the log as "return" events.
AskQuestion(question, include_sources, hash_order, F) ==
    /\ \E r \in {ask_question(index, collOk, question, include_sources, hash_order, F)} :
         last' = Last("ask_question", NoFound, r.relevant_chunks,
                      IF r.raised THEN "raised" ELSE "returned",
                      <<Ev("ask_question", question, IF include_sources THEN 1 ELSE 0)>>
                      \o r.log
                      \o [i \in 1..Len(r.answer) |-> Ev("return", r.answer[i], i)],
                      F = {}, FALSE)
    /\ UNCHANGED <<files, index, collOk, callback>>

NextIndex ==
    \/ \E docs \in DocLists, F \in Plans(AddPoints) : AddChunks(docs, F)
    \/ \E filename \in Sources : \E F \in SUBSET RemovePoints(filename) :
           RemoveOldChunks(filename, F)
    \/ \E query \in Queries, top_k \in 1..MAX_RELEVANT_CHUNKS, F \in SUBSET QueryPoints :
           FindSimilar(query, top_k, F)
    \/ \E question \in Queries, include_sources \in BOOLEAN, hash_order \in HashOrders,
          F \in SUBSET AskPoints :
           AskQuestion(question, include_sources, hash_order, F)

SpecIndex == InitIndex /\ [][NextIndex]_vars

(* ------------------------- the chunker on its own ----------------------- *)

\* The sizes of end-to-end scenario 2, 1500 / 1000 / 200, divided by 100.
ScaledLen == 15
ScaledChunkSize == 10
ScaledOverlap == 2

\* Every text of n characters made of the letter x and the delimiter ". ":
\* every placement of the sentence delimiters in a document of that length.
RECURSIVE Docs(_)
Docs(n) ==
    IF n = 0 THEN {<<>>}
    ELSE {<<"x">> \o d : d \in Docs(n - 1)}
         \cup (IF n >= 2 THEN {Delim \o d : d \in Docs(n - 2)} ELSE {})

\* The dict process_document returns for a file b.MD of the given content.
DocumentData(content) ==
    [filename |-> "b.MD", path |-> "b.MD", content |-> content,
     metadata |-> [pages |-> "1", elements |-> "n", tables |-> "0"]]

\* A processor holding one extracted document, not yet chunked.
InitChunk ==
    /\ files = [p \in Paths |-> IF p \in Mutable THEN 0 ELSE 1]
    /\ index = <<>>
    /\ collOk = TRUE
    /\ callback = FALSE
    /\ \E content \in Docs(ScaledLen) :
         last = Last("process_document", NoFound, <<>>, "returned",
                     <<Ev("document", content, Len(content))>>, TRUE, FALSE)

\* processor.create_chunks(document_data, chunk_size, overlap)
CreateChunks ==
    /\ last.op = "process_document"
    /\ last' = Last("create_chunks", NoFound,
                    create_chunks(DocumentData(last.log[1].arg),
                                  ScaledChunkSize, ScaledOverlap),
                    "returned", last.log, TRUE, FALSE)
    /\ UNCHANGED <<files, index, collOk, callback>>

NextChunk == CreateChunks

SpecChunk == InitChunk /\ [][NextChunk]_vars

\* The longest document given to the chunker on its own.
MaxDocLen == 12

\* Every text of n characters made of the letter x, the space and the
\* delimiter ". ".
RECURSIVE Texts(_)
Texts(n) ==
    IF n = 0 THEN {<<>>}
    ELSE {<<"x">> \o d : d \in Texts(n - 1)}
         \cup {<<" ">> \o d : d \in Texts(n - 1)}
         \cup (IF n >= 2 THEN {Delim \o d : d \in Texts(n - 2)} ELSE {})

\* A processor holding one extracted document of any length up to MaxDocLen.
InitChunkAny ==
    /\ files = [p \in Paths |-> IF p \in Mutable THEN 0 ELSE 1]
    /\ index = <<>>
    /\ collOk = TRUE
    /\ callback = FALSE
    /\ \E n \in 0..MaxDocLen : \E content \in Texts(n) :
         last = Last("process_document", NoFound, <<>>, "returned",
                     <<Ev("document", content, Len(content))>>, TRUE, FALSE)

NextChunkAny == CreateChunks

SpecChunkAny == InitChunkAny /\ [][NextChunkAny]_vars

(* ------------------------- vocabulary of the claims --------------------- *)

\* The entries of source s, in collection order.
EntriesOf(idx, s) == SelectSeq(idx, LAMBDA e : e.metadata.source = s)

SourcesOf(idx) == {idx[i].metadata.source : i \in 1..Len(idx)}

\* The fingerprint a refresh stamped on an entry: last_modified inside the
\* stored document metadata, "none" when the entry was not stamped.
Stamp(e) == Get(e.metadata.metadata.repr, "last_modified", "none")

\* The fingerprint the change detector reads back for source s.
Recorded(idx, s) == _get_existing_documents(idx, TRUE, {})[s].last_modified

\* The file and the version whose text an entry holds.
OriginPath(e) == CHOOSE p \in Paths : Letter(p) \in Range(e.document)

OriginVer(e) == CHOOSE v \in 1..(MaxVer + 1) : Digit(v) \in Range(e.document)

\* The calls of a log that write to the index.
WriteCalls == {"collection.add", "collection.delete", "client.delete_collection",
               "client.create_collection", "add_chunks", "_remove_old_chunks"}

\* The calls of a log that reach the index at all.
IndexCalls == WriteCalls \cup {"collection.get", "collection.get_where",
                               "collection.count"}

Calls(log, kinds) == {i \in 1..Len(log) : log[i].ev \in kinds}

Flagged == Range(last.found.files_to_process)

(* -------------------------------- claims -------------------------------- *)

\* C1: a smart refresh that directly follows a smart refresh which completed,
\* with nothing raising in either and no change on disk in between, flags no
\* file, makes no index write and reports up_to_date.
C1_SecondRunIdle ==
    (last.op = "smart" /\ last.quiet /\ last.clean) =>
        /\ last.found.files_to_process = <<>>
        /\ Calls(last.log, WriteCalls) = {}
        /\ last.outcome = "up_to_date"

\* C2: after a smart refresh in which nothing raised has added the chunks of a
\* file whose fingerprint is F, the fingerprint the change detector reads back
\* for that source is F.
C2_FingerprintRoundTrip ==
    (last.op = "smart" /\ last.clean /\ last.outcome = "smart_refresh_complete") =>
        \A p \in Flagged : Recorded(index, name(p)) = Mtime(files[p])

\* C3: after a smart refresh, every file flagged as modified has entries in
\* the index and all of them carry the file's current fingerprint.
C3_ModifiedReplaced ==
    last.op = "smart" =>
        \A p \in Flagged :
            last.found.processing_reasons[name(p)] = "Modified file" =>
                /\ EntriesOf(index, name(p)) # <<>>
                /\ \A e \in Range(EntriesOf(index, name(p))) : Stamp(e) = Mtime(files[p])

\* C4: the index never holds entries of one source that come from two
\* different versions of the same file.
C4_NeverMixed ==
    \A e1, e2 \in Range(index) :
        (e1.metadata.source = e2.metadata.source /\ OriginPath(e1) = OriginPath(e2))
            => OriginVer(e1) = OriginVer(e2)

\* The position of a path in the directory listing.
Pos(p) == CHOOSE i \in 1..Len(PathList) : PathList[i] = p

\* The last operation ran the change detector over a non-empty listing.
Detected == last.op \in {"smart", "status"} /\ last.found.called

\* C5: the detector returns, in listing order, exactly the supported files
\* on disk whose basename has no entry among those read from the index
\* ("New file") or whose recorded fingerprint differs from the current one
\* ("Modified file"); the entries read are those of the index, or none when
\* reading it raised.  Paths of one basename with one fingerprint are decided
\* alike and share the basename's reason.
C5_DetectorExact ==
    [][ (last'.op \in {"smart", "status"} /\ last'.found.called) =>
          LET fnd == last'.found
              ftp == fnd.files_to_process
              read == IF fnd.get_raised THEN {} ELSE SourcesOf(index)
              recorded(p) == Get(EntriesOf(index, name(p))[1].metadata,
                                 "last_modified", "unknown")
              current(p) == fnd.current[p]
              IsNew(p) == name(p) \notin read
              IsModified(p) == name(p) \in read /\ recorded(p) # current(p)
              want == {p \in Paths : /\ files[p] > 0
                                     /\ suffix_lower(p) \in supported_extensions
                                     /\ (IsNew(p) \/ IsModified(p))}
          IN /\ Range(ftp) = want
             /\ \A i, j \in 1..Len(ftp) : i < j => Pos(ftp[i]) < Pos(ftp[j])
             /\ DOMAIN fnd.processing_reasons = {name(p) : p \in want}
             /\ \A p \in want :
                    fnd.processing_reasons[name(p)] =
                        IF IsNew(p) THEN "New file" ELSE "Modified file"
             /\ \A p \in DOMAIN fnd.current :
                    current(p) \in {Mtime(files[p]), "unknown"}
             /\ \A p, q \in DOMAIN fnd.current :
                    (name(p) = name(q) /\ current(p) = current(q))
                        => (p \in want <=> q \in want)
      ]_vars

\* C5 witness: both paths of the basename a.txt are flagged as modified under
\* one reason entry, next to a new file.
C5_Witness ==
    /\ Detected
    /\ last.found.files_to_process = <<"a.txt", "sub/a.txt", "b.MD">>
    /\ last.found.processing_reasons["a.txt"] = "Modified file"
    /\ last.found.processing_reasons["b.MD"] = "New file"

\* C6: a listed file whose source is in the index with the recorded
\* fingerprint "unknown" is flagged, whatever _get_file_info returned for it.
C6_UnknownAlwaysFlagged ==
    Detected =>
        \A p \in DOMAIN last.found.current :
            (/\ name(p) \in DOMAIN last.found.existing_docs
             /\ last.found.existing_docs[name(p)].last_modified = "unknown")
                => p \in Flagged

\* A source of the index none of whose files is on disk.
Orphan(idx, fs, s) == s \in SourcesOf(idx) /\ \A p \in Paths : name(p) = s => fs[p] = 0

\* C7: a smart refresh neither flags a source whose file is gone from disk
\* nor changes that source's entries.
C7_OrphanKept ==
    [][ last'.op = "smart" =>
          \A s \in SourcesOf(index) :
              Orphan(index, files, s) =>
                  /\ \A p \in Range(last'.found.files_to_process) : name(p) # s
                  /\ s \notin DOMAIN last'.found.processing_reasons
                  /\ EntriesOf(index', s) = EntriesOf(index, s)
      ]_vars

\* C7 witness: a smart refresh rewrote a modified file while the index held
\* the entries of a file that is gone from disk.
C7_Witness ==
    /\ last.op = "smart"
    /\ last.outcome = "smart_refresh_complete"
    /\ \E i \in 1..Len(last.log) : last.log[i].ev = "collection.delete"
    /\ \E s \in SourcesOf(index) : Orphan(index, files, s)

\* C8: a smart refresh whose detector flags no file reports up_to_date and
\* leaves the index as it was, calling none of delete, add and clear; over a
\* directory without a supported file the detector returns ([], {}) and the
\* index is not called at all.
C8_NothingFlaggedNoWrite ==
    [][ (last'.op = "smart" /\ last'.found.files_to_process = <<>>) =>
          /\ last'.outcome = "up_to_date"
          /\ last'.log[Len(last'.log)] = Ev("progress", "up_to_date", 0)
          /\ index' = index
          /\ Calls(last'.log, WriteCalls) = {}
          /\ all_files(files) = <<>> =>
                /\ last'.found.processing_reasons = <<>>
                /\ Calls(last'.log, IndexCalls) = {}
      ]_vars

\* C8 witness: a smart refresh over a non-empty index found nothing to do.
C8_Witness ==
    /\ last.op = "smart"
    /\ last.found.files_to_process = <<>>
    /\ last.outcome = "up_to_date"
    /\ index # <<>>

\* The file whose text a chunk holds.
ChunkPath(c) == CHOOSE p \in Paths : Letter(p) \in Range(c.content)

\* The index in files_to_process of a flagged path.
FlagIndex(p) ==
    CHOOSE i \in 0..(Len(last.found.files_to_process) - 1) :
        last.found.files_to_process[i + 1] = p

\* C9: in a smart refresh, _remove_old_chunks is called only for a file
\* flagged as modified and before that file is converted; add_chunks is
\* called at most once, after every conversion and chunking, with the chunks
\* of the converted files in file-list order.
C9_DeleteThenExtractThenAddOnce ==
    last.op = "smart" =>
        LET log == last.log
            ftp == last.found.files_to_process
            adds == Calls(log, {"add_chunks"})
            converted == {log[k].arg : k \in Calls(log, {"create_chunks"})}
        IN /\ \A j \in Calls(log, {"_remove_old_chunks"}) :
                 /\ log[j].n < Len(ftp)
                 /\ log[j].arg = name(ftp[log[j].n + 1])
                 /\ last.found.processing_reasons[log[j].arg] = "Modified file"
                 /\ \E k \in Calls(log, {"converter.convert"}) :
                        log[k].n = log[j].n /\ j < k
                 /\ \A k \in Calls(log, {"converter.convert"}) :
                        log[k].n = log[j].n => j < k
           /\ \A j \in Calls(log, {"collection.delete", "collection.get_where"}) :
                 j > 1 /\ log[j - 1].ev \in {"_remove_old_chunks", "collection.get_where"}
           /\ Cardinality(adds) <= 1
           /\ \A j \in adds :
                 /\ \A k \in Calls(log, {"converter.convert", "create_chunks",
                                         "_remove_old_chunks", "collection.delete"}) : k < j
                 /\ \A i \in 0..(Len(ftp) - 1) :
                        \E k \in Calls(log, {"converter.convert"}) : log[k].n = i
                 /\ log[j].n = Len(last.chunks)
           /\ {ChunkPath(last.chunks[k]) : k \in 1..Len(last.chunks)} = converted
           /\ \A k \in 1..(Len(last.chunks) - 1) :
                 LET c == last.chunks[k]
                     d == last.chunks[k + 1]
                 IN \/ /\ ChunkPath(c) = ChunkPath(d)
                       /\ d.id.ordinal = c.id.ordinal + 1
                    \/ /\ FlagIndex(ChunkPath(c)) < FlagIndex(ChunkPath(d))
                       /\ d.id.ordinal = 0

\* C9 witness: a smart refresh over several files, one of them modified,
\* handed the chunks of all of them to add_chunks.
C9_Witness ==
    /\ last.op = "smart"
    /\ Len(last.found.files_to_process) >= 2
    /\ Calls(last.log, {"_remove_old_chunks"}) # {}
    /\ Calls(last.log, {"add_chunks"}) # {}
    /\ {ChunkPath(last.chunks[k]) : k \in 1..Len(last.chunks)} = Flagged

\* No two files on disk share a basename.
DistinctBasenames ==
    \A p, q \in Listed : name(p) = name(q) => p = q

\* C10: a full refresh has cleared the index before the first conversion and
\* leaves in it exactly the chunks of this run, none of the entries written
\* before.  Stated for the runs that report processing_complete over files
\* of distinct basenames.
C10_FullRefreshExact ==
    (last.op = "full" /\ last.outcome = "processing_complete" /\ DistinctBasenames) =>
        /\ \E j \in Calls(last.log, {"client.delete_collection"}) :
               \A k \in Calls(last.log, {"converter.convert"}) : j < k
        /\ index = Prepare(last.chunks)

\* The files a refresh goes through, in order: the flagged files of a smart
\* refresh, the listing of a full refresh.
Batch == IF last.op = "smart" THEN last.found.files_to_process ELSE all_files(files)

\* The converter raised on the i-th file of the batch (0-based).
ConvertFailed(i) ==
    \E k \in 1..Len(last.log) : last.log[k] = Ev("converter.raised", Batch[i + 1], i)

\* C11: in a smart and in a full refresh the converter is called once on
\* every file of the batch, in order; a file it raises on gets the progress
\* event "error" right after the raise and contributes no chunk; every other
\* file is chunked and its chunks are in the list handed to add_chunks.
C11_BadFileSkippedRestProcessed ==
    last.op \in {"smart", "full"} =>
        LET log == last.log
            converts == Calls(log, {"converter.convert"})
            of(i) == {k \in 1..Len(last.chunks) : ChunkPath(last.chunks[k]) = Batch[i + 1]}
        IN /\ Cardinality(converts) = Len(Batch)
           /\ \A j, k \in converts : j < k => log[j].n < log[k].n
           /\ \A i \in 0..(Len(Batch) - 1) :
                 /\ \E k \in converts : log[k] = Ev("converter.convert", Batch[i + 1], i)
                 /\ ConvertFailed(i) =>
                        /\ \A k \in 1..Len(log) :
                               log[k] = Ev("converter.raised", Batch[i + 1], i) =>
                                   /\ k < Len(log)
                                   /\ log[k + 1] = Ev("progress", "error", i)
                        /\ Ev("create_chunks", Batch[i + 1], i) \notin Range(log)
                        /\ of(i) = {}
                 /\ ~ConvertFailed(i) =>
                        /\ Ev("create_chunks", Batch[i + 1], i) \in Range(log)
                        /\ of(i) # {}
                        /\ Ev("add_chunks", "", Len(last.chunks)) \in Range(log)

\* C11 witness: a smart refresh over three files in which the converter
\* raised on two of them and the third file's chunks were written.
C11_Witness ==
    /\ last.op = "smart"
    /\ Len(Batch) = 3
    /\ Cardinality({i \in 0..2 : ConvertFailed(i)}) = 2
    /\ last.outcome = "smart_refresh_complete"

\* A collection.add call of the last operation raised.
WriteFailed ==
    \E k \in 1..Len(last.log) :
        last.log[k].ev = "collection.add" /\ last.log[k].arg = "raised"

\* The step tags of the progress events of the last operation.
Tags == {last.log[k].arg : k \in Calls(last.log, {"progress"})}

\* C12: a smart or full refresh in which the index write raised had false
\* from add_chunks, emitted a progress event tagged error or
\* processing_failed, and emitted none of smart_refresh_complete,
\* processing_complete and full_refresh_complete.
C12_WriteFailureNoCompletion ==
    (last.op \in {"smart", "full"} /\ WriteFailed) =>
        /\ last.outcome \in {"error", "processing_failed"}
        /\ Tags \cap {"error", "processing_failed"} # {}
        /\ Tags \cap {"smart_refresh_complete", "processing_complete",
                       "full_refresh_complete"} = {}

\* The entries stored under an id.
Stored(id) == SelectSeq(index, LAMBDA e : e.id = id)

\* C13: after add_chunks has returned True, the index holds under the id of
\* every chunk of the call exactly one entry, and its text is that chunk's
\* content: an id that was there before is overwritten.
C13_UpsertById ==
    (last.op = "add_chunks" /\ last.outcome = "True") =>
        \A k \in 1..Len(last.chunks) :
            /\ Len(Stored(last.chunks[k].id)) = 1
            /\ Stored(last.chunks[k].id)[1].document = last.chunks[k].content

\* The collection.add calls of the last operation, in order.
Adds == SelectSeq(last.log, LAMBDA e : e.ev = "collection.add")

\* The calls write consecutive groups of at most batch_size records, in input
\* order from the first record on, and stop at the first call that raises;
\* when none raises every record is in one group, and when one raises
\* add_chunks returns False.
Grouped ==
    /\ Adds # <<>>
    /\ Adds[1].n = 0
    /\ \A k \in 1..Len(Adds) :
          /\ Adds[k].n < Adds[k].cur
          /\ Adds[k].cur - Adds[k].n <= batch_size
          /\ Adds[k].cur <= Len(last.chunks)
          /\ k < Len(Adds) => (Adds[k + 1].n = Adds[k].cur /\ Adds[k].arg # "raised")
    /\ Adds[Len(Adds)].arg # "raised" => Adds[Len(Adds)].cur = Len(last.chunks)
    /\ Adds[Len(Adds)].arg = "raised" => last.outcome = "False"

C15_RemovesExactlySource ==
    [][ last'.op = "_remove_old_chunks" =>
          index' = SelectSeq(index, LAMBDA e : e.metadata.source # last'.outcome)
      ]_vars

\* C16: find_similar_chunks(q, k) returns a list of at most k chunks in
\* descending order of similarity_score, each score being 1 - distance; the
\* list has count() chunks when the index holds fewer than k entries and is
\* empty when the index is empty.
C16_TopKSortedBySimilarity ==
    last.op = "find_similar_chunks" =>
        LET query == last.log[1].arg
            top_k == last.log[1].n
            r == last.chunks
        IN /\ last.outcome = "returned"
           /\ Len(r) <= top_k
           /\ \A i \in 1..Len(r) :
                 r[i].similarity_score = 1 - Distance(query, r[i].content)
           /\ \A i, j \in 1..Len(r) :
                 i < j => r[i].similarity_score >= r[j].similarity_score
           /\ Len(index) < top_k => Len(r) = Len(index)
           /\ index = <<>> => r = <<>>

\* The returned string of the last ask_question, in parts.
Answer ==
    LET parts == SelectSeq(last.log, LAMBDA e : e.ev = "return")
    IN [i \in 1..Len(parts) |-> parts[i].arg]

\* C17: ask_question over an empty index returns the fixed "no documents
\* loaded" message, whatever fails, and calls neither the language model nor
\* the retrieval (no collection.count and no collection.query of
\* find_similar_chunks).
C17_EmptyIndexFixedAnswer ==
    (last.op = "ask_question" /\ index = <<>>) =>
        /\ last.outcome = "returned"
        /\ Answer = <<NoDocumentsLoaded>>
        /\ Calls(last.log, {"ollama.chat", "collection.query", "collection.count"}) = {}

\* C17 witness: a question was asked over an empty index with sources
\* requested.
C17_Witness ==
    /\ last.op = "ask_question"
    /\ index = <<>>
    /\ last.log[1].n = 1
    /\ Answer = <<NoDocumentsLoaded>>

\* C18: whatever fails among the stats call, the retrieval and the
\* language-model call, ask_question raises nothing and returns a string; the
\* string begins with an error prefix when ollama.chat raised.
C18_AlwaysAString ==
    last.op = "ask_question" =>
        /\ last.outcome = "returned"
        /\ Answer # <<>>
        /\ (\E k \in Calls(last.log, {"ollama.chat"}) : last.log[k].arg = "raised")
               => Answer[1] \in ErrorPrefixes

\* The elements of a sequence, each once, in the order of first appearance.
FirstAppearance(seq) ==
    SelectSeq([i \in 1..Len(seq) |-> [at |-> i, x |-> seq[i]]],
              LAMBDA e : \A j \in 1..(e.at - 1) : seq[j] # e.x)

\* The source names appended to the returned answer, after "Sources:".
AppendedSources ==
    LET at == {i \in 1..Len(Answer) : Answer[i] = "Sources:"}
    IN IF at = {} THEN <<>>
       ELSE Slice(Answer, CHOOSE i \in at : TRUE, Len(Answer))

\* C19: with include_sources set and a non-empty retrieval, the source list
\* appended to the answer holds each retrieved source once, in the order of
\* first appearance in the retrieved chunks.
C19_SourcesInFirstAppearanceOrder ==
    (/\ last.op = "ask_question"
     /\ last.outcome = "returned"
     /\ last.log[1].n = 1
     /\ last.chunks # <<>>) =>
        With(FirstAppearance([i \in 1..Len(last.chunks) |-> last.chunks[i].source]),
             LAMBDA first :
                AppendedSources = [i \in 1..Len(first) |-> first[i].x])

\* The document create_chunks was given.
Document == last.log[1].arg

\* s begins with t.
StartsWith(s, t) == Len(t) <= Len(s) /\ SubSeq(s, 1, Len(t)) = t

\* C20: a document of ScaledLen characters, chunked with ScaledChunkSize and
\* ScaledOverlap, gives exactly 2 chunks, and the content of the second
\* begins with the last ScaledOverlap characters of the content of the first;
\* for every placement of the delimiters.
C20_TwoChunksOverlapOfContent ==
    last.op = "create_chunks" =>
        /\ Len(last.chunks) = 2
        /\ StartsWith(last.chunks[2].content,
                      Suffix(last.chunks[1].content, ScaledOverlap))

\* C20, amended: a document without a delimiter gives 1 chunk; any other
\* gives at least 2, and the content of the second begins with the last
\* ScaledOverlap characters of the first chunk's buffer, which is its content
\* followed by one space, less leading whitespace.
C20_OverlapOfBuffer ==
    last.op = "create_chunks" =>
        IF Len(split(Document)) = 1
        THEN Len(last.chunks) = 1
        ELSE /\ Len(last.chunks) >= 2
             /\ StartsWith(last.chunks[2].content,
                           lstrip(Suffix(last.chunks[1].content \o <<" ">>,
                                         ScaledOverlap)))

C20_Witness ==
    /\ last.op = "create_chunks"
    /\ Len(split(Document)) = 3
    /\ Len(last.chunks) = 2
    /\ Len(last.chunks[1].content) > ScaledOverlap
    /\ ~StartsWith(last.chunks[2].content,
                   Suffix(last.chunks[1].content, ScaledOverlap))
    /\ StartsWith(last.chunks[2].content, Delim)

\* The sentences of the document create_chunks was given.
Sentences == split(Document)

\* C21: when every sentence of the document is shorter than the chunk size,
\* every chunk has content of at most the chunk size, the chunks of a buffer
\* seeded with overlap text and a sentence included.
C21_ContentAtMostChunkSize ==
    (/\ last.op = "create_chunks"
     /\ \A i \in 1..Len(Sentences) : Len(Sentences[i]) < ScaledChunkSize) =>
        \A k \in 1..Len(last.chunks) :
            Len(last.chunks[k].content) <= ScaledChunkSize

\* A non-empty suffix of a, of at most n characters, is a prefix of b.
SharedOverlap(a, b, n) ==
    \E k \in 1..Min(n, Min(Len(a), Len(b))) :
        SubSeq(a, Len(a) - k + 1, Len(a)) = SubSeq(b, 1, k)

\* C22: consecutive chunks c[i], c[i+1] of a document share a non-empty
\* suffix of c[i].content, of at most overlap characters, as a prefix of
\* c[i+1].content.  The buffer closed as c[i] is its content between
\* whitespace, so this covers every buffer longer than the overlap.
C22_ConsecutiveChunksOverlap ==
    last.op = "create_chunks" =>
        \A i \in 1..(Len(last.chunks) - 1) :
            SharedOverlap(last.chunks[i].content, last.chunks[i + 1].content,
                          ScaledOverlap)

C22_Witness ==
    /\ last.op = "create_chunks"
    /\ Len(last.chunks) >= 3
    /\ \A i \in 1..2 : Len(last.chunks[i].content) > ScaledOverlap
    /\ \E i \in 1..Len(Document) : Document[i] = "x"
    /\ SharedOverlap(last.chunks[2].content, last.chunks[3].content, ScaledOverlap)

\* C23: a document shorter than the chunk size, the empty one included, gives
\* exactly one chunk, and so does a document without a delimiter, whatever
\* its length.
C23_DegenerateDocumentsOneChunk ==
    (/\ last.op = "create_chunks"
     /\ \/ Len(Document) < ScaledChunkSize
        \/ Len(Sentences) = 1) =>
        Len(last.chunks) = 1

C23_Witness ==
    /\ last.op = "create_chunks"
    /\ Len(Document) >= ScaledChunkSize
    /\ Len(Sentences) = 1
    /\ Len(last.chunks) = 1
    /\ Len(last.chunks[1].content) > ScaledChunkSize

\* C24: get_collection_stats returns a dict with the four keys total_chunks,
\* unique_sources, sources and status whether or not the engine call fails,
\* and get_system_status, built on it, raises nothing.
C24_StatsAlwaysFourFields ==
    last.op = "status" =>
        /\ last.outcome # "KeyError"
        /\ \A F \in SUBSET {Fault("stats", "", 0)} :
               {"total_chunks", "unique_sources", "sources", "status"}
                   \subseteq DOMAIN get_collection_stats(index, collOk, F)

\* The progress events of the last operation, by position in its log.
ExtractionTags == {"extracting_text", "extracted_text"}
ChunkingTags == {"chunking", "chunking_sentence", "chunking_complete"}

\* The event "error" of process_document directly follows the converter's raise.
IsExtraction(k) ==
    /\ last.log[k].ev = "progress"
    /\ \/ last.log[k].arg \in ExtractionTags
       \/ /\ last.log[k].arg = "error"
          /\ k > 1
          /\ last.log[k - 1].ev = "converter.raised"

IsChunking(k) == last.log[k].ev = "progress" /\ last.log[k].arg \in ChunkingTags

IsFileEvent(k) ==
    \/ IsExtraction(k)
    \/ IsChunking(k)
    \/ (last.log[k].ev = "progress" /\ last.log[k].arg = "processing_file")

IsBatchEvent(k) == last.log[k].ev = "progress" /\ last.log[k].arg = "batch"

IsScanEvent(k) ==
    last.log[k].ev = "progress" /\ last.log[k].arg \in {"analyzing", "scanning"}

ChatCalls == Calls(last.log, {"ollama.chat"})

\* ask_question sent the bare question with the no-context note.
Fallback == \E k \in ChatCalls : last.log[k].n = 1

\* The engine answered the query of the last operation with no result.
ZeroResults ==
    \E k \in Calls(last.log, {"collection.query"}) :
        /\ last.log[k].arg # "raised"
        /\ coll_query(index, last.log[1].arg, last.log[k].n) = <<>>

\* The parts of the context of the grounded prompt, in order.
Context == SelectSeq(last.log, LAMBDA e : e.ev = "context")

\* C26: ask_question takes the fallback path exactly when the index is not
\* empty and the engine returned no result for the query; on that path it
\* makes one language-model call, with the bare question and the no-context
\* note; on the grounded path it makes one call, with the system instruction
\* and the context built from the retrieved chunks in retrieval order.
C26_FallbackOnZeroResultsOnly ==
    (last.op = "ask_question" /\ last.outcome = "returned") =>
        /\ Fallback <=> (index # <<>> /\ ZeroResults)
        /\ Fallback => (Cardinality(ChatCalls) = 1 /\ Context = <<>>)
        /\ last.chunks # <<>> =>
              /\ Cardinality(ChatCalls) = 1
              /\ ~Fallback
              /\ Context = _build_context(last.chunks)

\* The files flagged as modified on which the converter raised in run l.
ModifiedNotExtracted(l) ==
    {p \in Range(l.found.files_to_process) :
        /\ l.found.processing_reasons[name(p)] = "Modified file"
        /\ \E k \in 1..Len(l.log) :
              l.log[k].ev = "converter.raised" /\ l.log[k].arg = p}

\* A collection.add call of run l raised.
WriteFailedIn(l) ==
    \E k \in 1..Len(l.log) : l.log[k].ev = "collection.add" /\ l.log[k].arg = "raised"

\* C27: a smart refresh in which the extraction of a modified file fails
\* leaves the entries of that file as they were, and one in which an
\* extraction or the index write fails removes no source that was in the
\* index before the run.
C27_FailedRefreshKeepsSources ==
    [][ last'.op = "smart" =>
          /\ \A p \in ModifiedNotExtracted(last') :
                EntriesOf(index', name(p)) = EntriesOf(index, name(p))
          /\ (ModifiedNotExtracted(last') # {} \/ WriteFailedIn(last')) =>
                SourcesOf(index) \subseteq SourcesOf(index')
      ]_vars

\* The step tags with which a smart refresh ends.
FinalTags == {"up_to_date", "smart_refresh_complete", "error", "no_chunks"}

\* C28: a smart refresh ends with one progress event, tagged up_to_date,
\* smart_refresh_complete, error or no_chunks; it ends with
\* smart_refresh_complete only when every flagged file was extracted and
\* every chunk of the run is in the index.
C28_CompleteOnlyWhenAllProcessed ==
    last.op = "smart" =>
        /\ last.outcome \in FinalTags
        /\ last.log # <<>>
        /\ last.log[Len(last.log)] = Ev("progress", last.outcome, 0)
        /\ \A k \in 1..(Len(last.log) - 1) :
              last.log[k].ev = "progress" =>
                  last.log[k].arg \notin (FinalTags \ {"error"})
        /\ last.outcome = "smart_refresh_complete" =>
              /\ \A i \in 0..(Len(Batch) - 1) : ~ConvertFailed(i)
              /\ \A k \in 1..Len(last.chunks) :
                    /\ Len(Stored(last.chunks[k].id)) = 1
                    /\ Stored(last.chunks[k].id)[1].document = last.chunks[k].content

\* C29: over an index that holds an entry, ask_question never returns the
\* message of the empty index, whatever the stats call does: it goes on to
\* the retrieval and returns the language model's answer or an error string.
C29_EmptyMessageOnlyWhenEmpty ==
    (last.op = "ask_question" /\ index # <<>>) =>
        /\ Answer # <<NoDocumentsLoaded>>
        /\ Calls(last.log, {"collection.count", "collection.query"}) # {}
        /\ last.outcome = "returned" => ChatCalls # {}

====
